---- MODULE Spec2Model ----
(***************************************************************************)
(* A model of util/generate_docs.py (Twijn/cc-misc): the EmmyLua           *)
(* annotation extractor LuaDocGenerator.parse_file, the README scanner     *)
(* parse_program_readme, and the run of generate with generate_api.        *)
(* Source texts are TLA+ strings; every regular expression and string      *)
(* method of the Python code is an operator that walks the text character  *)
(* by character.                                                           *)
(***************************************************************************)
EXTENDS Integers, Sequences, FiniteSets, TLC

VARIABLES
    stem,       \* filepath.stem, the module's name
    content,    \* the text read from the file
    module,     \* the dict parse_file builds
    pc,         \* "read" after f.read(), "done" after parse_file returned;
                \* "readme" before parse_program_readme, "done" after it;
                \* "generate", "sorted", "indexed", "end" along generate
    readme,     \* the README.md of a program directory: None or Some(text)
    program,    \* what parse_program_readme returned
    lua_files,  \* the result of glob('*.lua'), in the order of discovery:
                \* a sequence of [stem, text]
    tree,       \* the program directories next to the input directory
    modules,    \* self.modules
    programs,   \* self.programs
    probed,     \* how many names of program_dirs the loop has passed
    written,    \* the files written, by their path under output_dir
    index,      \* what generate_html_index was called with
    api         \* what generate_api wrote

fileVars == <<stem, content, module>>
readmeVars == <<readme, program>>
runVars == <<lua_files, tree, modules, programs, probed, written, index, api>>
vars == <<fileVars, pc, readmeVars, runVars>>

(***************************************************************************)
(* Characters and Python string methods                                    *)
(***************************************************************************)
NL == "\n"

\* what \s and str.strip() treat as whitespace
Whitespace == {" ", "\t", "\n", "\r"}

\* [ \t] of func_pattern
Blank == {" ", "\t"}

\* the two quote characters of ["\']
Quotes == {"\"", "'"}

\* \w
WordChars ==
    {"a","b","c","d","e","f","g","h","i","j","k","l","m","n","o","p","q","r",
     "s","t","u","v","w","x","y","z",
     "A","B","C","D","E","F","G","H","I","J","K","L","M","N","O","P","Q","R",
     "S","T","U","V","W","X","Y","Z",
     "0","1","2","3","4","5","6","7","8","9","_"}

\* [\w.:] of func_pattern
NameChars == WordChars \cup {".", ":"}

\* s[i-1] in Python terms; "" past either end
Ch(s, i) == IF i >= 1 /\ i <= Len(s) THEN SubSeq(s, i, i) ELSE ""

\* s[i-1:]
From(s, i) == IF i > Len(s) THEN "" ELSE SubSeq(s, i, Len(s))

\* s.startswith(lit, i-1)
StartsAt(s, i, lit) ==
    /\ i >= 1
    /\ i + Len(lit) - 1 <= Len(s)
    /\ SubSeq(s, i, i + Len(lit) - 1) = lit

\* s.startswith(lit)
StartsWith(s, lit) == StartsAt(s, 1, lit)

\* the first index >= i whose character is not in set (Len(s)+1 when none):
\* where a greedy [set]* that starts at i stops
RECURSIVE SkipIn(_, _, _)
SkipIn(s, i, set) ==
    IF i <= Len(s) /\ Ch(s, i) \in set THEN SkipIn(s, i + 1, set) ELSE i

\* the first index >= i whose character is in set (Len(s)+1 when none):
\* where a greedy [^set]* that starts at i stops
RECURSIVE SkipNotIn(_, _, _)
SkipNotIn(s, i, set) ==
    IF i <= Len(s) /\ Ch(s, i) \notin set THEN SkipNotIn(s, i + 1, set) ELSE i

\* the last index <= i whose character is not in set (0 when none)
RECURSIVE BackIn(_, _, _)
BackIn(s, i, set) ==
    IF i >= 1 /\ Ch(s, i) \in set THEN BackIn(s, i - 1, set) ELSE i

\* lit in s
InStr(s, lit) == \E i \in 1..Len(s) : StartsAt(s, i, lit)

\* s.lstrip()
LStrip(s) == From(s, SkipIn(s, 1, Whitespace))

\* s.strip()
Strip(s) ==
    LET a == SkipIn(s, 1, Whitespace)
        b == BackIn(s, Len(s), Whitespace)
    IN  IF a > b THEN "" ELSE SubSeq(s, a, b)

\* s.split('\n')
RECURSIVE Split(_)
Split(s) ==
    LET e == SkipNotIn(s, 1, {NL})
    IN  IF e > Len(s) THEN <<s>>
        ELSE <<SubSeq(s, 1, e - 1)>> \o Split(From(s, e + 1))

\* sep.join(parts)
RECURSIVE Join(_, _)
Join(sep, parts) ==
    IF parts = <<>> THEN ""
    ELSE IF Len(parts) = 1 THEN parts[1]
    ELSE parts[1] \o sep \o Join(sep, Tail(parts))

\* s[:i-1].count('\n'): the newlines before index i
RECURSIVE CountNL(_, _)
CountNL(s, i) ==
    IF i <= 1 THEN 0
    ELSE CountNL(s, i - 1) + (IF Ch(s, i - 1) = NL THEN 1 ELSE 0)

\* s.replace(lit, '')
RECURSIVE Remove(_, _)
Remove(s, lit) ==
    IF s = "" THEN ""
    ELSE IF StartsWith(s, lit) THEN Remove(From(s, Len(lit) + 1), lit)
    ELSE Ch(s, 1) \o Remove(From(s, 2), lit)

\* the least index of hits, 0 when there is none: re.search and each step
\* of re.finditer take the leftmost start position at which the pattern
\* matches
Leftmost(hits) ==
    IF hits = {} THEN 0
    ELSE CHOOSE p \in hits : \A q \in hits : p <= q

(***************************************************************************)
(* Version: VERSION constant, else @version tag                            *)
(***************************************************************************)
None == <<>>
Some(s) == <<s>>

\* VERSION\s*=\s*["\']([^"\']+)["\'] tried at p: the index of the opening
\* quote and of the closing quote, <<0, 0>> when it does not match
VersionConstAt(c, p) ==
    IF ~StartsAt(c, p, "VERSION") THEN <<0, 0>>
    ELSE LET eq == SkipIn(c, p + 7, Whitespace)
         IN  IF Ch(c, eq) # "=" THEN <<0, 0>>
             ELSE LET q == SkipIn(c, eq + 1, Whitespace)
                  IN  IF Ch(c, q) \notin Quotes THEN <<0, 0>>
                      ELSE LET e == SkipNotIn(c, q + 1, Quotes)
                           IN  IF e > q + 1 /\ e <= Len(c) THEN <<q, e>>
                               ELSE <<0, 0>>

VersionConstMatches(c, p) == VersionConstAt(c, p) # <<0, 0>>

\* ---@version\s+([^\s]+) tried at p: first and last index of the token
VersionTagAt(c, p) ==
    IF ~StartsAt(c, p, "---@version") THEN <<0, 0>>
    ELSE LET a == SkipIn(c, p + 11, Whitespace)
             e == SkipNotIn(c, a, Whitespace)
         IN  IF a > p + 11 /\ e > a THEN <<a, e - 1>> ELSE <<0, 0>>

VersionTagMatches(c, p) == VersionTagAt(c, p) # <<0, 0>>

\* ExtractVersion with the @version tag preferred to the constant
ExtractVersionTagFirst(c) ==
    LET t == Leftmost({q \in 1..Len(c) : VersionTagMatches(c, q)})
    IN  IF t # 0
        THEN LET m == VersionTagAt(c, t) IN Some(SubSeq(c, m[1], m[2]))
        ELSE LET p == Leftmost({q \in 1..Len(c) : VersionConstMatches(c, q)})
             IN  IF p # 0
                 THEN LET m == VersionConstAt(c, p) IN Some(SubSeq(c, m[1] + 1, m[2] - 1))
                 ELSE None

\* lines 46-53
ExtractVersion(c) ==
    LET p == Leftmost({q \in 1..Len(c) : VersionConstMatches(c, q)})
    IN  IF p # 0
        THEN LET m == VersionConstAt(c, p) IN Some(SubSeq(c, m[1] + 1, m[2] - 1))
        ELSE LET t == Leftmost({q \in 1..Len(c) : VersionTagMatches(c, q)})
             IN  IF t # 0
                 THEN LET m == VersionTagAt(c, t) IN Some(SubSeq(c, m[1], m[2]))
                 ELSE None

(***************************************************************************)
(* Dependencies: require("name") / require("/lib/name")                    *)
(***************************************************************************)
\* require\s*\(\s*["\'](?:/lib/)?(\w+)["\'] tried at p: first index of the
\* name and index of the closing quote, <<0, 0>> when it does not match
RequireAt(c, p) ==
    IF ~StartsAt(c, p, "require") THEN <<0, 0>>
    ELSE LET par == SkipIn(c, p + 7, Whitespace)
         IN  IF Ch(c, par) # "(" THEN <<0, 0>>
             ELSE LET q == SkipIn(c, par + 1, Whitespace)
                  IN  IF Ch(c, q) \notin Quotes THEN <<0, 0>>
                      ELSE LET n == IF StartsAt(c, q + 1, "/lib/") THEN q + 6 ELSE q + 1
                               e == SkipIn(c, n, WordChars)
                           IN  IF e > n /\ Ch(c, e) \in Quotes THEN <<n, e>>
                               ELSE <<0, 0>>

RequireMatches(c, p) == RequireAt(c, p) # <<0, 0>>

Contains(seq, x) == \E i \in 1..Len(seq) : seq[i] = x

\* AddDependency without the test against the module's own name
AddDependencyNoSelfCheck(deps, dep, self) ==
    IF ~Contains(deps, dep) THEN Append(deps, dep) ELSE deps

\* the loop body of lines 59-62
AddDependency(deps, dep, self) ==
    IF ~Contains(deps, dep) /\ dep # self THEN Append(deps, dep) ELSE deps

\* the finditer loop of lines 58-62, resumed at index i with deps collected
RECURSIVE DependenciesFrom(_, _, _, _)
DependenciesFrom(c, i, self, deps) ==
    LET p == Leftmost({q \in i..Len(c) : RequireMatches(c, q)})
    IN  IF p = 0 THEN deps
        ELSE LET m == RequireAt(c, p)
             IN  DependenciesFrom(c, m[2] + 1, self,
                                  AddDependency(deps, SubSeq(c, m[1], m[2] - 1), self))

ExtractDependencies(c, self) == DependenciesFrom(c, 1, self, <<>>)

(***************************************************************************)
(* Module description: the first block of doc comments                     *)
(***************************************************************************)
\* DescriptionLines with a marker of two dashes
RECURSIVE DescriptionLinesTwoDashes(_, _, _)
DescriptionLinesTwoDashes(lines, i, acc) ==
    IF i > Len(lines) THEN acc
    ELSE IF StartsWith(lines[i], "--")
    THEN LET cleaned == Strip(From(lines[i], 3))
         IN  IF StartsWith(cleaned, "@") THEN acc
             ELSE IF cleaned # ""
             THEN DescriptionLinesTwoDashes(lines, i + 1, Append(acc, cleaned))
             ELSE DescriptionLinesTwoDashes(lines, i + 1, acc)
    ELSE IF acc # <<>> THEN acc
    ELSE DescriptionLinesTwoDashes(lines, i + 1, acc)

\* DescriptionLines without the test of line 73: a blank doc line is kept
RECURSIVE DescriptionLinesKeepBlank(_, _, _)
DescriptionLinesKeepBlank(lines, i, acc) ==
    IF i > Len(lines) THEN acc
    ELSE IF StartsWith(lines[i], "---")
    THEN LET cleaned == Strip(From(lines[i], 4))
         IN  IF StartsWith(cleaned, "@") THEN acc
             ELSE DescriptionLinesKeepBlank(lines, i + 1, Append(acc, cleaned))
    ELSE IF acc # <<>> THEN acc
    ELSE DescriptionLinesKeepBlank(lines, i + 1, acc)

\* the loop of lines 68-77 from line i on, acc being desc_lines;
\* in_description is true exactly when acc is not empty
RECURSIVE DescriptionLines(_, _, _)
DescriptionLines(lines, i, acc) ==
    IF i > Len(lines) THEN acc
    ELSE IF StartsWith(lines[i], "---")
    THEN LET cleaned == Strip(From(lines[i], 4))
         IN  IF StartsWith(cleaned, "@") THEN acc
             ELSE IF cleaned # "" THEN DescriptionLines(lines, i + 1, Append(acc, cleaned))
             ELSE DescriptionLines(lines, i + 1, acc)
    ELSE IF acc # <<>> THEN acc
    ELSE DescriptionLines(lines, i + 1, acc)

ExtractDescription(c) == Join(" ", DescriptionLines(Split(c), 1, <<>>))

(***************************************************************************)
(* Examples: ---@usage blocks                                              *)
(***************************************************************************)
\* (?:---(?:[^@\n].*?)?\n)* from the line start i: the index after the last
\* line it takes (i itself when it takes none)
RECURSIVE UsageRunEnd(_, _)
UsageRunEnd(c, i) ==
    IF ~StartsAt(c, i, "---") THEN i
    ELSE IF Ch(c, i + 3) = NL THEN UsageRunEnd(c, i + 4)
    ELSE IF Ch(c, i + 3) \in {"@", ""} THEN i
    ELSE LET e == SkipNotIn(c, i + 3, {NL})
         IN  IF e <= Len(c) THEN UsageRunEnd(c, e + 1) ELSE i

\* ---@usage\s*\n((?:---(?:[^@\n].*?)?\n)+) tried at p: first index of the
\* group and the index after it, <<0, 0>> when it does not match
UsageAt(c, p) ==
    IF ~StartsAt(c, p, "---@usage") THEN <<0, 0>>
    ELSE LET w == SkipIn(c, p + 9, Whitespace)
         IN  IF w > p + 9 /\ Ch(c, w - 1) = NL /\ UsageRunEnd(c, w) > w
             THEN <<w, UsageRunEnd(c, w)>>
             ELSE <<0, 0>>

UsageMatches(c, p) == UsageAt(c, p) # <<0, 0>>

\* CleanExampleLine with every leading space dropped
CleanExampleLineLStrip(line) == LStrip(From(line, 4))

\* lines 88-91: drop the marker and exactly one space after it
CleanExampleLine(line) ==
    LET cleaned == From(line, 4)
    IN  IF StartsWith(cleaned, " ") THEN From(cleaned, 2) ELSE cleaned

\* the loop of lines 86-94 from line i on, acc being example_lines
RECURSIVE ExampleLines(_, _, _)
ExampleLines(lines, i, acc) ==
    IF i > Len(lines) THEN acc
    ELSE IF StartsWith(lines[i], "---")
            /\ ~StartsWith(LStrip(CleanExampleLine(lines[i])), "@")
    THEN ExampleLines(lines, i + 1, Append(acc, CleanExampleLine(lines[i])))
    ELSE ExampleLines(lines, i + 1, acc)

\* the finditer loop of lines 83-96, resumed at index i
RECURSIVE ExamplesFrom(_, _, _)
ExamplesFrom(c, i, acc) ==
    LET p == Leftmost({q \in i..Len(c) : UsageMatches(c, q)})
    IN  IF p = 0 THEN acc
        ELSE LET m == UsageAt(c, p)
                 example_lines == ExampleLines(Split(SubSeq(c, m[1], m[2] - 1)), 1, <<>>)
             IN  ExamplesFrom(c, m[2],
                              IF example_lines # <<>>
                              THEN Append(acc, Join(NL, example_lines))
                              ELSE acc)

ExtractExamples(c) == ExamplesFrom(c, 1, <<>>)

(***************************************************************************)
(* Doc-block lines shared by functions and classes                         *)
(***************************************************************************)
\* TagMatch with the optional marker left out of the name
TagMatchStripOptional(line) ==
    LET a  == SkipIn(line, 7, Whitespace)
        ne == SkipIn(line, a, WordChars)
        q  == IF Ch(line, ne) = "?" THEN ne + 1 ELSE ne
        t  == SkipIn(line, q, Whitespace)
        te == SkipNotIn(line, t, Whitespace)
        d  == SkipIn(line, te, Whitespace)
    IN  IF a > 7 /\ ne > a /\ t > q /\ te > t
        THEN <<[name        |-> SubSeq(line, a, ne - 1),
                type        |-> SubSeq(line, t, te - 1),
                description |-> IF d > te /\ d <= Len(line) THEN From(line, d) ELSE ""]>>
        ELSE <<>>

\* @param\s+(\w+\??)\s+(\S+)(?:\s+(.+))? (and the same with @field) matched
\* at the start of a stripped line; <<>> when it does not match, else a
\* one-element sequence holding the Param / Field
TagMatch(line) ==
    LET a  == SkipIn(line, 7, Whitespace)
        ne == SkipIn(line, a, WordChars)
        q  == IF Ch(line, ne) = "?" THEN ne + 1 ELSE ne
        t  == SkipIn(line, q, Whitespace)
        te == SkipNotIn(line, t, Whitespace)
        d  == SkipIn(line, te, Whitespace)
    IN  IF a > 7 /\ ne > a /\ t > q /\ te > t
        THEN <<[name        |-> SubSeq(line, a, q - 1),
                type        |-> SubSeq(line, t, te - 1),
                description |-> IF d > te /\ d <= Len(line) THEN From(line, d) ELSE ""]>>
        ELSE <<>>

\* line 135
ReturnText(line) == Strip(Remove(line, "@return"))

\* FuncDocLine with the first @return kept instead of the last
FuncDocLineFirstReturn(info, raw) ==
    LET stripped == Strip(raw)
        line == Strip(From(stripped, 4))
    IN  IF ~StartsWith(stripped, "---") THEN info
        ELSE IF StartsWith(line, "@param")
        THEN [info EXCEPT !.params = info.params \o TagMatch(line)]
        ELSE IF StartsWith(line, "@return")
        THEN IF info.returns = "" THEN [info EXCEPT !.returns = ReturnText(line)] ELSE info
        ELSE IF ~StartsWith(line, "@")
        THEN [info EXCEPT !.desc_lines = Append(info.desc_lines, line)]
        ELSE info

\* lines 122-137: one line of a function's doc block folded into
\* info = [params, returns, desc_lines]
FuncDocLine(info, raw) ==
    LET stripped == Strip(raw)
        line == Strip(From(stripped, 4))
    IN  IF ~StartsWith(stripped, "---") THEN info
        ELSE IF StartsWith(line, "@param")
        THEN [info EXCEPT !.params = info.params \o TagMatch(line)]
        ELSE IF StartsWith(line, "@return")
        THEN [info EXCEPT !.returns = ReturnText(line)]
        ELSE IF ~StartsWith(line, "@")
        THEN [info EXCEPT !.desc_lines = Append(info.desc_lines, line)]
        ELSE info

\* FuncDoc whose loop stops at the first @param line that does not parse
RECURSIVE FuncDocAbort(_, _, _)
FuncDocAbort(lines, i, info) ==
    IF i > Len(lines) THEN info
    ELSE IF StartsWith(Strip(From(Strip(lines[i]), 4)), "@param")
            /\ TagMatch(Strip(From(Strip(lines[i]), 4))) = <<>>
    THEN info
    ELSE FuncDocAbort(lines, i + 1, FuncDocLine(info, lines[i]))

\* the loop of line 122
RECURSIVE FuncDoc(_, _, _)
FuncDoc(lines, i, info) ==
    IF i > Len(lines) THEN info
    ELSE FuncDoc(lines, i + 1, FuncDocLine(info, lines[i]))

\* lines 156-169: one line of a class's doc block folded into
\* info = [fields, desc_lines]
ClassDocLine(info, raw) ==
    LET stripped == Strip(raw)
        line == Strip(From(stripped, 4))
    IN  IF ~StartsWith(stripped, "---") THEN info
        ELSE IF StartsWith(line, "@field")
        THEN [info EXCEPT !.fields = info.fields \o TagMatch(line)]
        ELSE IF ~StartsWith(line, "@")
        THEN [info EXCEPT !.desc_lines = Append(info.desc_lines, line)]
        ELSE info

RECURSIVE ClassDoc(_, _, _)
ClassDoc(lines, i, info) ==
    IF i > Len(lines) THEN info
    ELSE ClassDoc(lines, i + 1, ClassDocLine(info, lines[i]))

(***************************************************************************)
(* Functions: a run of doc lines followed by a function declaration        *)
(***************************************************************************)
\* (?:[ \t]*---.*?\n)* from index i: the index after the last doc line it
\* takes (i itself when it takes none)
RECURSIVE DocRunEnd(_, _)
DocRunEnd(c, i) ==
    LET b == SkipIn(c, i, Blank)
        e == SkipNotIn(c, b + 3, {NL})
    IN  IF StartsAt(c, b, "---") /\ e <= Len(c) THEN DocRunEnd(c, e + 1) ELSE i

\* what FuncAt gives where func_pattern does not match
NoFunc == [start |-> 0]

\* func_pattern tried at p
FuncAt(c, p) ==
    LET d  == DocRunEnd(c, p)
        b  == SkipIn(c, d, Blank)
        l  == SkipIn(c, b + 5, Whitespace)
        is_local == StartsAt(c, b, "local") /\ l > b + 5 /\ StartsAt(c, l, "function")
        f  == IF is_local THEN l ELSE b
        n  == SkipIn(c, f + 8, Whitespace)
        ne == SkipIn(c, n, NameChars)
        o  == SkipIn(c, ne, Whitespace)
        cp == SkipNotIn(c, o + 1, {")", NL})
    IN  IF /\ d > p
           /\ StartsAt(c, f, "function")
           /\ n > f + 8
           /\ ne > n
           /\ Ch(c, o) = "("
           /\ Ch(c, cp) = ")"
        THEN [start     |-> p,
              doc_block |-> SubSeq(c, p, d - 1),
              is_local  |-> is_local,
              func_name |-> SubSeq(c, n, ne - 1),
              end       |-> cp + 1]
        ELSE NoFunc

FuncMatches(c, p) == FuncAt(c, p) # NoFunc

\* a filter that lets every local function through
SkipLocalNever(m) == FALSE

\* lines 105-107
SkipLocal(m) ==
    m.is_local /\ ~InStr(m.func_name, ".") /\ ~InStr(m.func_name, ":")

\* line 110
LineNumber(c, m) == CountNL(c, m.start) + 1

\* a retention test that keeps bare declarations
HasDocumentationAlways(func_info) == TRUE

\* line 141
HasDocumentation(func_info) ==
    func_info.description # "" \/ func_info.params # <<>> \/ func_info.returns # ""

\* lines 109-139: the func_info of a match
FuncInfo(c, m) ==
    LET info == FuncDoc(Split(m.doc_block), 1,
                        [params |-> <<>>, returns |-> "", desc_lines |-> <<>>])
    IN  [name        |-> m.func_name,
         params      |-> info.params,
         returns     |-> info.returns,
         description |-> Join(" ", info.desc_lines),
         line        |-> LineNumber(c, m)]

\* the finditer loop of lines 102-142, resumed at index i
RECURSIVE FunctionsFrom(_, _, _)
FunctionsFrom(c, i, acc) ==
    LET p == Leftmost({q \in i..Len(c) : FuncMatches(c, q)})
    IN  IF p = 0 THEN acc
        ELSE LET m == FuncAt(c, p)
                 func_info == FuncInfo(c, m)
             IN  FunctionsFrom(c, m.end,
                               IF ~SkipLocal(m) /\ HasDocumentation(func_info)
                               THEN Append(acc, func_info)
                               ELSE acc)

ExtractFunctions(c) == FunctionsFrom(c, 1, <<>>)

(***************************************************************************)
(* Classes: a run of doc lines followed by ---@class Name                  *)
(***************************************************************************)
\* ---@class\s+(\w+) tried at i: first index of the name and the index
\* after it, <<0, 0>> when it does not match
ClassTagAt(c, i) ==
    LET a  == SkipIn(c, i + 9, Whitespace)
        ne == SkipIn(c, a, WordChars)
    IN  IF StartsAt(c, i, "---@class") /\ a > i + 9 /\ ne > a THEN <<a, ne>>
        ELSE <<0, 0>>

\* the greedy (?:---.*?\n)+ gives lines back until ---@class follows: from
\* the line start i (reached over at least one doc line), the last line
\* start of the run where ---@class\s+(\w+) matches, 0 when there is none
RECURSIVE ClassAnchor(_, _)
ClassAnchor(c, i) ==
    LET e == SkipNotIn(c, i + 3, {NL})
        deeper == IF StartsAt(c, i, "---") /\ e <= Len(c)
                  THEN ClassAnchor(c, e + 1) ELSE 0
    IN  IF deeper # 0 THEN deeper
        ELSE IF ClassTagAt(c, i) # <<0, 0>> THEN i
        ELSE 0

NoClass == [start |-> 0]

\* class_pattern tried at p
ClassAt(c, p) ==
    LET e == SkipNotIn(c, p + 3, {NL})
        t == IF StartsAt(c, p, "---") /\ e <= Len(c) THEN ClassAnchor(c, e + 1) ELSE 0
    IN  IF t # 0
        THEN [start      |-> p,
              doc_block  |-> SubSeq(c, p, t - 1),
              class_name |-> SubSeq(c, ClassTagAt(c, t)[1], ClassTagAt(c, t)[2] - 1),
              end        |-> ClassTagAt(c, t)[2]]
        ELSE NoClass

ClassMatches(c, p) == ClassAt(c, p) # NoClass

\* lines 149-171: the class_info of a match
ClassInfo(m) ==
    LET info == ClassDoc(Split(m.doc_block), 1, [fields |-> <<>>, desc_lines |-> <<>>])
    IN  [name        |-> m.class_name,
         description |-> Join(" ", info.desc_lines),
         fields      |-> info.fields]

\* line 172
ClassHasDocumentation(class_info) ==
    class_info.description # "" \/ class_info.fields # <<>>

\* the finditer loop of lines 146-173, resumed at index i
RECURSIVE ClassesFrom(_, _, _)
ClassesFrom(c, i, acc) ==
    LET p == Leftmost({q \in i..Len(c) : ClassMatches(c, q)})
    IN  IF p = 0 THEN acc
        ELSE LET m == ClassAt(c, p)
                 class_info == ClassInfo(m)
             IN  ClassesFrom(c, m.end,
                             IF ClassHasDocumentation(class_info)
                             THEN Append(acc, class_info)
                             ELSE acc)

ExtractClasses(c) == ClassesFrom(c, 1, <<>>)

(***************************************************************************)
(* parse_file                                                              *)
(***************************************************************************)
\* the dict of lines 34-44 ('path' is the file's location, not its text)
EmptyModule(name) ==
    [name         |-> name,
     description  |-> "",
     examples     |-> <<>>,
     functions    |-> <<>>,
     classes      |-> <<>>,
     fields       |-> <<>>,
     dependencies |-> <<>>,
     version      |-> None]

parse_file(name, c) ==
    [name         |-> name,
     description  |-> ExtractDescription(c),
     examples     |-> ExtractExamples(c),
     functions    |-> ExtractFunctions(c),
     classes      |-> ExtractClasses(c),
     fields       |-> <<>>,
     dependencies |-> ExtractDependencies(c, name),
     version      |-> ExtractVersion(c)]

(***************************************************************************)
(* parse_program_readme                                                    *)
(***************************************************************************)
UpperLetters == "ABCDEFGHIJKLMNOPQRSTUVWXYZ"
LowerLetters == "abcdefghijklmnopqrstuvwxyz"

\* ch.lower()
LowerCh(ch) ==
    LET hits == {i \in 1..Len(UpperLetters) : Ch(UpperLetters, i) = ch}
    IN  IF hits = {} THEN ch ELSE Ch(LowerLetters, CHOOSE i \in hits : TRUE)

\* s.lower()
RECURSIVE Lower(_)
Lower(s) == IF s = "" THEN "" ELSE LowerCh(Ch(s, 1)) \o Lower(From(s, 2))

\* the fence of a Markdown code block, three backquotes in the source: a
\* TLA+ string cannot hold a backquote, so in every text of this module the
\* character ~ stands for it
Fence == "~~~"

\* s.lstrip(chars)
LStripChars(s, chars) == From(s, SkipIn(s, 1, chars))

\* \*\*([^*]+)\*\* tried at p: the index of the closing `**`, 0 when it does
\* not match
BoldAt(s, p) ==
    IF ~StartsAt(s, p, "**") THEN 0
    ELSE LET e == SkipNotIn(s, p + 2, {"*"})
         IN  IF e > p + 2 /\ StartsAt(s, e, "**") THEN e ELSE 0

\* re.sub(r'\*\*([^*]+)\*\*', r'\1', s)
RECURSIVE StripBold(_)
StripBold(s) ==
    LET p == Leftmost({q \in 1..Len(s) : BoldAt(s, q) # 0})
    IN  IF p = 0 THEN s
        ELSE LET e == BoldAt(s, p)
             IN  SubSeq(s, 1, p - 1) \o SubSeq(s, p + 2, e - 1) \o StripBold(From(s, e + 2))

\* lines 199-203: the first line that starts with `# `
RECURSIVE ReadmeTitle(_, _)
ReadmeTitle(lines, i) ==
    IF i > Len(lines) THEN ""
    ELSE IF StartsWith(lines[i], "# ") THEN Strip(From(lines[i], 3))
    ELSE ReadmeTitle(lines, i + 1)

\* ReadmeDescriptionLines without the install test of line 215
RECURSIVE ReadmeDescriptionLinesNoInstall(_, _, _, _)
ReadmeDescriptionLinesNoInstall(lines, i, in_description, acc) ==
    IF i > Len(lines) THEN acc
    ELSE LET line == lines[i]
         IN  IF StartsWith(line, "# ")
             THEN ReadmeDescriptionLinesNoInstall(lines, i + 1, TRUE, acc)
             ELSE IF ~in_description
             THEN ReadmeDescriptionLinesNoInstall(lines, i + 1, FALSE, acc)
             ELSE IF \/ StartsWith(line, "##")
                     \/ StartsWith(line, "- **")
                     \/ StartsWith(line, Fence)
             THEN acc
             ELSE IF Strip(line) # ""
             THEN ReadmeDescriptionLinesNoInstall(lines, i + 1, TRUE,
                                                  Append(acc, Strip(line)))
             ELSE ReadmeDescriptionLinesNoInstall(lines, i + 1, TRUE, acc)

\* the loop of lines 208-218 from line i on, acc being desc_lines
RECURSIVE ReadmeDescriptionLines(_, _, _, _)
ReadmeDescriptionLines(lines, i, in_description, acc) ==
    IF i > Len(lines) THEN acc
    ELSE LET line == lines[i]
         IN  IF StartsWith(line, "# ")
             THEN ReadmeDescriptionLines(lines, i + 1, TRUE, acc)
             ELSE IF ~in_description
             THEN ReadmeDescriptionLines(lines, i + 1, FALSE, acc)
             ELSE IF \/ StartsWith(line, "##")
                     \/ StartsWith(line, "- **")
                     \/ StartsWith(line, Fence)
                     \/ StartsWith(Lower(Strip(line)), "install")
             THEN acc
             ELSE IF Strip(line) # ""
             THEN ReadmeDescriptionLines(lines, i + 1, TRUE, Append(acc, Strip(line)))
             ELSE ReadmeDescriptionLines(lines, i + 1, TRUE, acc)

\* the loop of lines 223-234 from line i on, acc being program['features']
RECURSIVE FeatureLines(_, _, _, _)
FeatureLines(lines, i, in_features, acc) ==
    IF i > Len(lines) THEN acc
    ELSE LET line == lines[i]
         IN  IF InStr(line, "## Features") \/ InStr(line, "## features")
             THEN FeatureLines(lines, i + 1, TRUE, acc)
             ELSE IF ~in_features THEN FeatureLines(lines, i + 1, FALSE, acc)
             ELSE IF StartsWith(line, "##") THEN acc
             ELSE IF StartsWith(line, "- ")
             THEN FeatureLines(lines, i + 1, TRUE,
                               Append(acc, StripBold(Strip(From(line, 3)))))
             ELSE FeatureLines(lines, i + 1, TRUE, acc)

\* ExtractFeatures without the wait for the heading
ExtractFeaturesNoHeading(lines) == FeatureLines(lines, 1, TRUE, <<>>)

\* lines 222-234
ExtractFeatures(lines) == FeatureLines(lines, 1, FALSE, <<>>)

\* install_pattern of line 237 tried at p: first and last index of the
\* command, <<0, 0>> when it does not match; \s*\n ends at the last
\* character of the whitespace after the fence, which has to be a newline
InstallAt(c, p) ==
    IF ~StartsAt(c, p, Fence) THEN <<0, 0>>
    ELSE LET a == IF StartsAt(c, p + 3, "text") THEN p + 7
                  ELSE IF StartsAt(c, p + 3, "lua") THEN p + 6
                  ELSE p + 3
             b == SkipIn(c, a, Whitespace)
             e == SkipNotIn(c, b + 9, {NL})
         IN  IF /\ b > a
                /\ Ch(c, b - 1) = NL
                /\ StartsAt(c, b, "wget run ")
                /\ e > b + 9
                /\ StartsAt(c, e, NL \o Fence)
             THEN <<b, e - 1>>
             ELSE <<0, 0>>

InstallMatches(c, p) == InstallAt(c, p) # <<0, 0>>

\* ExtractInstallation without the strip of line 240
ExtractInstallationNoStrip(c) ==
    LET p == Leftmost({q \in 1..Len(c) : InstallMatches(c, q)})
    IN  IF p = 0 THEN ""
        ELSE LET m == InstallAt(c, p) IN SubSeq(c, m[1], m[2])

\* lines 237-240
ExtractInstallation(c) ==
    LET p == Leftmost({q \in 1..Len(c) : InstallMatches(c, q)})
    IN  IF p = 0 THEN ""
        ELSE LET m == InstallAt(c, p) IN Strip(SubSeq(c, m[1], m[2]))

\* ComponentLines with the test of line 251 widened to every `- ` bullet
RECURSIVE ComponentLinesAnyBullet(_, _, _, _)
ComponentLinesAnyBullet(lines, i, in_components, acc) ==
    IF i > Len(lines) THEN acc
    ELSE LET line == lines[i]
         IN  IF InStr(line, "## Components")
             THEN ComponentLinesAnyBullet(lines, i + 1, TRUE, acc)
             ELSE IF ~in_components
             THEN ComponentLinesAnyBullet(lines, i + 1, FALSE, acc)
             ELSE IF StartsWith(line, "##") THEN acc
             ELSE IF StartsWith(line, "- ") \/ StartsWith(line, "### ")
             THEN ComponentLinesAnyBullet(lines, i + 1, TRUE,
                      Append(acc, StripBold(Strip(LStripChars(line, {"-", " ", "#"})))))
             ELSE ComponentLinesAnyBullet(lines, i + 1, TRUE, acc)

\* the loop of lines 244-254 from line i on, acc being program['components']
RECURSIVE ComponentLines(_, _, _, _)
ComponentLines(lines, i, in_components, acc) ==
    IF i > Len(lines) THEN acc
    ELSE LET line == lines[i]
         IN  IF InStr(line, "## Components")
             THEN ComponentLines(lines, i + 1, TRUE, acc)
             ELSE IF ~in_components THEN ComponentLines(lines, i + 1, FALSE, acc)
             ELSE IF StartsWith(line, "##") THEN acc
             ELSE IF StartsWith(line, "- **") \/ StartsWith(line, "### ")
             THEN ComponentLines(lines, i + 1, TRUE,
                      Append(acc, StripBold(Strip(LStripChars(line, {"-", " ", "#"})))))
             ELSE ComponentLines(lines, i + 1, TRUE, acc)

\* the loop of lines 258-268 from line i on, acc being program['requirements']
RECURSIVE RequirementLines(_, _, _, _)
RequirementLines(lines, i, in_requirements, acc) ==
    IF i > Len(lines) THEN acc
    ELSE LET line == lines[i]
         IN  IF InStr(line, "## Requirements")
             THEN RequirementLines(lines, i + 1, TRUE, acc)
             ELSE IF ~in_requirements THEN RequirementLines(lines, i + 1, FALSE, acc)
             ELSE IF StartsWith(line, "##") THEN acc
             ELSE IF StartsWith(line, "- ")
             THEN RequirementLines(lines, i + 1, TRUE,
                                   Append(acc, StripBold(Strip(From(line, 3)))))
             ELSE RequirementLines(lines, i + 1, TRUE, acc)

\* lines 177-270: None without a README.md, else the program dict; file is
\* None or Some(text of README.md)
parse_program_readme(name, file) ==
    IF file = None THEN None
    ELSE LET c == file[1]
             lines == Split(c)
         IN  [name         |-> name,
              title        |-> ReadmeTitle(lines, 1),
              description  |-> Join(" ", ReadmeDescriptionLines(lines, 1, FALSE, <<>>)),
              features     |-> ExtractFeatures(lines),
              installation |-> ExtractInstallation(c),
              components   |-> ComponentLines(lines, 1, FALSE, <<>>),
              requirements |-> RequirementLines(lines, 1, FALSE, <<>>),
              content      |-> c]

(***************************************************************************)
(* generate and generate_api: sorting and the JSON API                     *)
(***************************************************************************)
\* the characters of the texts in code point order (~ at the place of the
\* backquote it stands for)
CodePoints ==
    "\t\n\r !\"#$%&'()*+,-./0123456789:;<=>?@ABCDEFGHIJKLMNOPQRSTUVWXYZ[\\]^_~abcdefghijklmnopqrstuvwxyz{|}"

\* the rank of ch among them
Ord(ch) ==
    LET hits == {i \in 1..Len(CodePoints) : Ch(CodePoints, i) = ch}
    IN  IF hits = {} THEN 0 ELSE CHOOSE i \in hits : TRUE

\* a < b on str
RECURSIVE StrLess(_, _)
StrLess(a, b) ==
    IF b = "" THEN FALSE
    ELSE IF a = "" THEN TRUE
    ELSE IF Ch(a, 1) = Ch(b, 1) THEN StrLess(From(a, 2), From(b, 2))
    ELSE Ord(Ch(a, 1)) < Ord(Ch(b, 1))

\* the pair x = <<key, item>> put into sorted behind every pair whose key is
\* not greater than its own
RECURSIVE InsertByKey(_, _)
InsertByKey(sorted, x) ==
    IF sorted = <<>> THEN <<x>>
    ELSE IF StrLess(x[1], sorted[1][1]) THEN <<x>> \o sorted
    ELSE <<sorted[1]>> \o InsertByKey(Tail(sorted), x)

\* list.sort(key=...) on pairs <<key, item>>: the sort is stable, pairs with
\* equal keys keep their order
RECURSIVE SortByKey(_)
SortByKey(pairs) ==
    IF pairs = <<>> THEN <<>>
    ELSE InsertByKey(SortByKey(SubSeq(pairs, 1, Len(pairs) - 1)), pairs[Len(pairs)])

\* the key of line 1465
ModuleKey(m) == Lower(m.name)

\* the key of line 1466: title or name
ProgramKey(p) == Lower(IF p.title # "" THEN p.title ELSE p.name)

\* SortModules with the name itself as the key
SortModulesByName(ms) ==
    LET sorted == SortByKey([i \in 1..Len(ms) |-> <<ms[i].name, ms[i]>>])
    IN  [i \in 1..Len(ms) |-> sorted[i][2]]

\* line 1465
SortModules(ms) ==
    LET sorted == SortByKey([i \in 1..Len(ms) |-> <<ModuleKey(ms[i]), ms[i]>>])
    IN  [i \in 1..Len(ms) |-> sorted[i][2]]

\* line 1466
SortPrograms(ps) ==
    LET sorted == SortByKey([i \in 1..Len(ps) |-> <<ProgramKey(ps[i]), ps[i]>>])
    IN  [i \in 1..Len(ps) |-> sorted[i][2]]

\* no module kept out of the API
ExcludeNothing == {}

\* line 1486
EXCLUDE_FROM_API == {"installer"}

DownloadUrl(name) ==
    "https://raw.githubusercontent.com/Twijn/cc-misc/main/util/" \o name \o ".lua"
DocumentationUrl(name) == "https://ccmisc.twijn.dev/" \o name \o ".html"

\* lib_info of lines 1495-1504
LibInfo(m) ==
    [name              |-> m.name,
     version           |-> m.version,
     description       |-> m.description,
     dependencies      |-> m.dependencies,
     download_url      |-> DownloadUrl(m.name),
     documentation_url |-> DocumentationUrl(m.name),
     functions         |-> [i \in 1..Len(m.functions) |-> m.functions[i].name],
     classes           |-> [i \in 1..Len(m.classes) |-> m.classes[i].name]]

\* the value of lines 1533-1542
AllInfo(m) ==
    [name              |-> m.name,
     version           |-> m.version,
     description       |-> m.description,
     dependencies      |-> m.dependencies,
     download_url      |-> DownloadUrl(m.name),
     documentation_url |-> DocumentationUrl(m.name),
     functions         |-> m.functions,
     classes           |-> m.classes]

\* the modules the loops of lines 1490-1493 and 1529-1531 do not skip
Included(ms) == SelectSeq(ms, LAMBDA m : m.name \notin EXCLUDE_FROM_API)

\* lines 1489-1518: the list written to libraries.json
Libraries(ms) ==
    LET infos == [i \in 1..Len(Included(ms)) |-> LibInfo(Included(ms)[i])]
        sorted == SortByKey([i \in 1..Len(infos) |-> <<Lower(infos[i].name), infos[i]>>])
    IN  [i \in 1..Len(infos) |-> sorted[i][2]]

\* d[key] = value on a dict kept as the sequence of its <<key, value>> items
DictSet(d, key, value) ==
    IF \E i \in 1..Len(d) : d[i][1] = key
    THEN [i \in 1..Len(d) |-> IF d[i][1] = key THEN <<key, value>> ELSE d[i]]
    ELSE Append(d, <<key, value>>)

\* the loop of lines 1529-1542 from module i on, d being all_data['libraries']
RECURSIVE AllLibraries(_, _, _)
AllLibraries(ms, i, d) ==
    IF i > Len(ms) THEN d
    ELSE IF ms[i].name \in EXCLUDE_FROM_API THEN AllLibraries(ms, i + 1, d)
    ELSE AllLibraries(ms, i + 1, DictSet(d, ms[i].name, AllInfo(ms[i])))

\* lines 1479-1547: what generate_api writes ('updated', the time of the run,
\* is left out)
generate_api(ms) ==
    [libraries |-> Libraries(ms),
     all       |-> AllLibraries(ms, 1, <<>>),
     files     |-> {"api/" \o Included(ms)[i].name \o ".json" : i \in 1..Len(Included(ms))}
                       \cup {"api/libraries.json", "api/all.json"}]

(***************************************************************************)
(* Source texts the checks run over                                        *)
(***************************************************************************)
MaxDocLines == 3
MaxTrailingDocLines == 1
MaxClassLines == 3
MaxPlainLines == 2
MaxUsageLines == 4
MaxMetaLines == 3

\* every sequence over set of length at most n
SeqsUpTo(set, n) == UNION {[1..k -> set] : k \in 0..n}

\* lines of a function's doc block
DocDesc       == "--- Adds two numbers."
DocBlank      == "---"
DocParamA     == "--- @param a number first addend"
DocParamB     == "--- @param b number second addend"
DocParamOpt   == "  ---@param c? table"
DocMalformed  == "--- @param a"
DocReturnSum  == "--- @return number the sum"
DocReturnS    == "--- @return s"
DocLines ==
    {DocDesc, DocBlank, DocParamA, DocParamOpt, DocMalformed,
     DocReturnSum, DocReturnS}

\* function declarations
DeclGlobal         == "function math.add(a, b)"
DeclMethod         == "  function M:g()"
DeclLocalPlain     == "local function helper(a)"
DeclLocalQualified == "local  function M.f()"
Decls == {DeclGlobal, DeclMethod, DeclLocalPlain, DeclLocalQualified}

\* code with a trailing comment
CodeTrailing == "x = 1 --- t"

\* the doc block of section 8 of the design document
MathAdd == <<DocDesc, DocParamA, DocParamB, DocReturnSum, DeclGlobal>>

\* one declaration under its doc lines; the same with a trailing comment on
\* the line of code before them; the block of the design document
FuncSources ==
    {Join(NL, doc \o <<decl>>) :
        doc \in SeqsUpTo(DocLines, MaxDocLines), decl \in Decls}
    \cup {Join(NL, <<CodeTrailing>> \o doc \o <<decl>>) :
        doc \in SeqsUpTo(DocLines, MaxTrailingDocLines), decl \in Decls}
    \cup {Join(NL, MathAdd) \o NL}

\* lines around a class declaration
ClassDesc      == "--- A point."
FieldX         == "---@field x number   the abscissa "
FieldOpt       == "--- @field y? number"
FieldMalformed == "--- @field z"
ClassOther     == "---@class J"
Code           == "x = 1"
ClassLines ==
    {ClassDesc, DocBlank, FieldX, FieldOpt, FieldMalformed, ClassOther, Code}
ClassDecl      == "---@class K"

ClassSources ==
    {Join(NL, doc \o <<ClassDecl>>) : doc \in SeqsUpTo(ClassLines, MaxClassLines)}

\* files without a single doc comment
PlainComment == "-- note"
PlainLines == {PlainComment, Code, DeclGlobal, DeclLocalPlain, "@usage", "@class K"}
PlainSources == {Join(NL, l) \o NL : l \in SeqsUpTo(PlainLines, MaxPlainLines)}

DocSources == FuncSources \cup ClassSources \cup PlainSources

\* lines of usage blocks
UsageAnchor   == "---@usage"
UsageCode     == "--- a"
UsageIndented == "---   b"
UsageTagLine  == "--- @t x"
UsageEnd      == "---@x"
UsageLines ==
    {UsageAnchor, UsageCode, DocBlank, UsageIndented, UsageTagLine, UsageEnd, Code}

\* with and without the newline that ends the last line
UsageSources ==
    {Join(NL, l) \o tail : l \in SeqsUpTo(UsageLines, MaxUsageLines), tail \in {"", NL}}

\* lines that carry a version or a require
VersionConst  == "local VERSION = \"1.2\""
VersionTag    == "---@version 3.4"
VersionTag2   == "---@version 5 beta"
VersionSpaced == "--- @version 6"
RequireLibFoo == "require(\"/lib/foo\")"
RequireBar    == "require(\"bar\")"
RequireFoo    == "local f = require ( 'foo' )"
RequireBaz    == "require('/lib/baz').x()"
MetaLines ==
    {VersionConst, VersionTag, VersionTag2, VersionSpaced,
     RequireLibFoo, RequireBar, RequireFoo, RequireBaz, Code}

MetaSources == {Join(NL, l) \o NL : l \in SeqsUpTo(MetaLines, MaxMetaLines)}

Stems == {"bar", "foo"}

\* lines at the head of a file
MaxHeadLines == 4
HeadDesc      == "--- Logging helpers."
HeadIndented  == "---   Second line.  "
HeadTag       == "---@module log"
HeadTagSpaced == "--- @author x"
HeadLines ==
    {HeadDesc, HeadIndented, DocBlank, HeadTag, HeadTagSpaced, Code, ""}

HeadSources == {Join(NL, l) : l \in SeqsUpTo(HeadLines, MaxHeadLines)}

\* usage anchors written with and without a space after the marker
MaxAnchorLines == 4
UsageSpaced == "--- @usage"
AnchorLines == {UsageAnchor, UsageSpaced, UsageCode, UsageEnd, Code}

AnchorSources == {Join(NL, l) \o NL : l \in SeqsUpTo(AnchorLines, MaxAnchorLines)}

\* doc blocks with @return lines, one with the tag again in its text
MaxReturnLines == 3
DocReturnTwice == "--- @return string see @return of g"
ReturnDocLines == {DocDesc, DocParamA, DocReturnSum, DocReturnS, DocReturnTwice}

ReturnSources ==
    {Join(NL, doc \o <<DeclGlobal>>) : doc \in SeqsUpTo(ReturnDocLines, MaxReturnLines)}

\* a usage block right above a documented function or class
MaxLeakLines == 3
UsageCall == "--- add(1, 2)"
LeakLines == {DocDesc, DocParamA, UsageAnchor, UsageCall, Code}
LeakSources ==
    {Join(NL, doc \o <<decl>>) :
        doc \in SeqsUpTo(LeakLines, MaxLeakLines), decl \in {DeclGlobal, ClassDecl}}

(***************************************************************************)
(* The state machine: a file is read, then parsed                          *)
(***************************************************************************)
\* no file is being parsed
NoFile == stem = "" /\ content = "" /\ module = None

\* no README is being parsed
NoReadme == readme = None /\ program = None

\* generate is not running
NoRun ==
    /\ lua_files = <<>>
    /\ tree = <<>>
    /\ modules = <<>>
    /\ programs = <<>>
    /\ probed = 0
    /\ written = {}
    /\ index = None
    /\ api = None

\* lines 31-44: the text is read and the module dict is created
ReadFile(name, text) ==
    /\ stem = name
    /\ content = text
    /\ module = EmptyModule(name)
    /\ pc = "read"
    /\ NoReadme
    /\ NoRun

\* lines 46-175
ParseFile ==
    /\ pc = "read"
    /\ module' = parse_file(stem, content)
    /\ pc' = "done"
    /\ UNCHANGED <<stem, content, readmeVars, runVars>>

Next == ParseFile

\* functions and classes with their doc blocks
InitDoc == \E text \in DocSources : ReadFile("bar", text)
SpecDoc == InitDoc /\ [][Next]_vars

\* usage examples
InitUsage == \E text \in UsageSources : ReadFile("bar", text)
SpecUsage == InitUsage /\ [][Next]_vars

\* version and dependencies
InitMeta == \E name \in Stems, text \in MetaSources : ReadFile(name, text)
SpecMeta == InitMeta /\ [][Next]_vars

\* the head of the file
InitHead == \E text \in HeadSources : ReadFile("bar", text)
SpecHead == InitHead /\ [][Next]_vars

\* usage anchors
InitAnchor == \E text \in AnchorSources : ReadFile("bar", text)
SpecAnchor == InitAnchor /\ [][Next]_vars

\* @return lines
InitReturn == \E text \in ReturnSources : ReadFile("bar", text)
SpecReturn == InitReturn /\ [][Next]_vars

\* a usage block right above a declaration
InitLeak == \E text \in LeakSources : ReadFile("bar", text)
SpecLeak == InitLeak /\ [][Next]_vars

(***************************************************************************)
(* The README scanner: a README.md is read, then parsed                    *)
(***************************************************************************)
MaxBlocks == 3

\* the parts a README is made of
TitleBlock        == <<"# Farm">>
LeadBlock         == <<"", "Grows wheat.", "  All year.  ">>
FeaturesBlock     == <<"## Features", "", "- **Fast** harvest", "- Replants", "More below.">>
InstallBlock      == <<"## Installation", Fence \o "lua", "wget run https://x/farm.lua", Fence>>
ComponentsBlock   == <<"## Components", "- **Planter** plants", "- a note">>
RequirementsBlock == <<"## Requirements", "- A **turtle**", "- Fuel">>
Blocks ==
    {TitleBlock, LeadBlock, FeaturesBlock, InstallBlock, ComponentsBlock,
     RequirementsBlock}

\* the lines of the blocks bs, one block after the other
RECURSIVE Flatten(_)
Flatten(bs) == IF bs = <<>> THEN <<>> ELSE bs[1] \o Flatten(Tail(bs))

ReadmeSources == {Join(NL, Flatten(bs)) \o NL : bs \in SeqsUpTo(Blocks, MaxBlocks)}

\* lines 179-184: README.md exists and is read
ReadReadme(text) ==
    /\ readme = Some(text)
    /\ program = None
    /\ pc = "readme"
    /\ NoFile
    /\ NoRun

\* lines 186-270
ParseReadme ==
    /\ pc = "readme"
    /\ program' = parse_program_readme("farm", readme)
    /\ pc' = "done"
    /\ UNCHANGED <<readme, fileVars, runVars>>

NextReadme == ParseReadme

InitReadme == \E text \in ReadmeSources : ReadReadme(text)
SpecReadme == InitReadme /\ [][NextReadme]_vars

\* Features headings in three spellings
MaxHeadingLines == 4
FeaturesTitle == "## Features"
FeaturesLower == "## features"
FeaturesUpper == "## FEATURES"
UsageHeading  == "## Usage"
BulletFast    == "- fast"
Prose         == "Grows wheat."
HeadingLines ==
    {FeaturesTitle, FeaturesLower, FeaturesUpper, UsageHeading, BulletFast, Prose}

HeadingSources == {Join(NL, l) \o NL : l \in SeqsUpTo(HeadingLines, MaxHeadingLines)}

InitHeading == \E text \in HeadingSources : ReadReadme(text)
SpecHeading == InitHeading /\ [][NextReadme]_vars

\* the three list sections with plain and bold-led bullets
MaxBulletLines == 4
ComponentsTitle   == "## Components"
RequirementsTitle == "## Requirements"
BulletBold        == "- **Planter** plants"
Note              == "note"
BulletLines ==
    {FeaturesTitle, ComponentsTitle, RequirementsTitle, BulletFast, BulletBold, Note}

BulletSources == {Join(NL, l) \o NL : l \in SeqsUpTo(BulletLines, MaxBulletLines)}

InitBullets == \E text \in BulletSources : ReadReadme(text)
SpecBullets == InitBullets /\ [][NextReadme]_vars

\* list sections with a third-level heading inside
MaxSectionLines == 4
SubHeading == "### Harvester"
SectionLines ==
    {FeaturesTitle, ComponentsTitle, UsageHeading, SubHeading, BulletBold, Note}

SectionSources == {Join(NL, l) \o NL : l \in SeqsUpTo(SectionLines, MaxSectionLines)}

InitSections == \E text \in SectionSources : ReadReadme(text)
SpecSections == InitSections /\ [][NextReadme]_vars

\* a title line, or none, and the lines that follow it
MaxBodyLines == 3
TitleFarm    == "# Farm"
TitleOther   == "# Other"
ProseIndent  == "  All year.  "
DeepHeading  == "### Notes"
BulletLed    == "- **Fast** one"
FenceLua     == Fence \o "lua"
InstallLine  == "  Installation:"
BodyLines ==
    {Prose, ProseIndent, "", TitleOther, DeepHeading, FeaturesTitle, BulletLed,
     FenceLua, InstallLine}
Leads == {<<>>, <<TitleFarm>>, <<Note, TitleFarm>>}

TitleSources ==
    {Join(NL, lead \o body) \o NL :
        lead \in Leads, body \in SeqsUpTo(BodyLines, MaxBodyLines)}

InitTitle == \E text \in TitleSources : ReadReadme(text)
SpecTitle == InitTitle /\ [][NextReadme]_vars

\* fenced blocks with and without a run command
MaxInstallLines == 4
FenceSh   == Fence \o "sh"
RunShort  == "wget run a"
RunPadded == "wget run x/i.lua  "
Echo      == "echo"
InstallLines == {Fence, FenceLua, FenceSh, RunShort, RunPadded, Echo, ""}

InstallSources == {Join(NL, l) \o NL : l \in SeqsUpTo(InstallLines, MaxInstallLines)}

InitInstall == \E text \in InstallSources : ReadReadme(text)
SpecInstall == InitInstall /\ [][NextReadme]_vars

\* a title and section headings in any order
MaxStateLines == 4
StateLines ==
    {TitleFarm, FeaturesTitle, ComponentsTitle, RequirementsTitle, BulletFast,
     BulletBold, Prose}

StateSources == {Join(NL, l) \o NL : l \in SeqsUpTo(StateLines, MaxStateLines)}

InitStates == \E text \in StateSources : ReadReadme(text)
SpecStates == InitStates /\ [][NextReadme]_vars

(***************************************************************************)
(* generate: the files are parsed, the program directories probed, the     *)
(* lists sorted, the index and the JSON API written                        *)
(***************************************************************************)
\* line 27
program_dirs ==
    <<"signshop", "autocrafter", "farm", "netherite", "roadbuilder", "router",
      "spleef", "brewery">>

ProgramNames == {program_dirs[i] : i \in 1..Len(program_dirs)}

\* a program directory: missing, without README.md, with the README.md text
NoDir == [exists |-> FALSE, readme |-> None]
BareDir == [exists |-> TRUE, readme |-> None]
DirWith(text) == [exists |-> TRUE, readme |-> Some(text)]

\* the loop body of lines 1433-1448: the next file is parsed, its module
\* appended, its Markdown and HTML pages written
GenerateModule ==
    /\ pc = "generate"
    /\ Len(modules) < Len(lua_files)
    /\ LET lua_file == lua_files[Len(modules) + 1]
           m == parse_file(lua_file.stem, lua_file.text)
       IN  /\ modules' = Append(modules, m)
           /\ written' = written \cup {m.name \o ".md", m.name \o ".html"}
    /\ UNCHANGED <<pc, lua_files, tree, programs, probed, index, api, fileVars, readmeVars>>

\* the loop body of lines 1451-1462, entered when the loop over the files
\* is over: the next name of program_dirs is probed
ProbeProgram ==
    /\ pc = "generate"
    /\ Len(modules) = Len(lua_files)
    /\ probed < Len(program_dirs)
    /\ LET program_name == program_dirs[probed + 1]
           program_dir == tree[program_name]
           parsed == IF program_dir.exists
                     THEN parse_program_readme(program_name, program_dir.readme)
                     ELSE None
       IN  IF parsed # None
           THEN /\ programs' = Append(programs, parsed)
                /\ written' = written \cup {"programs/" \o parsed.name \o ".html"}
           ELSE UNCHANGED <<programs, written>>
    /\ probed' = probed + 1
    /\ UNCHANGED <<pc, lua_files, tree, modules, index, api, fileVars, readmeVars>>

\* SortLists taken as soon as the files are parsed, the program
\* directories not yet probed
SortListsEarly ==
    /\ pc = "generate"
    /\ Len(modules) = Len(lua_files)
    /\ modules' = SortModules(modules)
    /\ programs' = SortPrograms(programs)
    /\ pc' = "sorted"
    /\ UNCHANGED <<lua_files, tree, probed, written, index, api, fileVars, readmeVars>>

\* lines 1464-1466, after both loops
SortLists ==
    /\ pc = "generate"
    /\ Len(modules) = Len(lua_files)
    /\ probed = Len(program_dirs)
    /\ modules' = SortModules(modules)
    /\ programs' = SortPrograms(programs)
    /\ pc' = "sorted"
    /\ UNCHANGED <<lua_files, tree, probed, written, index, api, fileVars, readmeVars>>

\* lines 1468-1471
GenerateIndex ==
    /\ pc = "sorted"
    /\ index' = Some([modules |-> modules, programs |-> programs])
    /\ written' = written \cup {"index.html"}
    /\ pc' = "indexed"
    /\ UNCHANGED <<lua_files, tree, modules, programs, probed, api, fileVars, readmeVars>>

\* line 1474
GenerateApi ==
    /\ pc = "indexed"
    /\ api' = Some(generate_api(modules))
    /\ written' = written \cup generate_api(modules).files
    /\ pc' = "end"
    /\ UNCHANGED <<lua_files, tree, modules, programs, probed, index, fileVars, readmeVars>>

NextGenerate ==
    \/ GenerateModule
    \/ ProbeProgram
    \/ SortLists
    \/ GenerateIndex
    \/ GenerateApi

\* lines 20-27 and 1430: the generator is new, glob has found files
StartGenerate(files, dirs) ==
    /\ lua_files = files
    /\ tree = dirs
    /\ modules = <<>>
    /\ programs = <<>>
    /\ probed = 0
    /\ written = {}
    /\ index = None
    /\ api = None
    /\ pc = "generate"
    /\ NoFile
    /\ NoReadme

MaxFiles == 2
MaxPrograms == 2

\* the files of the input directory
ModuleNames == {"log", "Log", "installer", "Tables"}
RequireLog == "local log = require(\"log\")"
FileTexts == {HeadDesc, RequireLog, RequireBaz}
LuaFiles == {[stem |-> n, text |-> t] : n \in ModuleNames, t \in FileTexts}

\* what glob can return: files of different names in any order
Discoveries ==
    {l \in SeqsUpTo(LuaFiles, MaxFiles) :
        \A i, j \in 1..Len(l) : i # j => l[i].stem # l[j].stem}

\* the program directories
ReadmeFarm     == "# Farm\nGrows wheat.\n"
ReadmeLower    == "# auto farm\n"
ReadmeUntitled == "Notes.\n"
DirStates == {BareDir, DirWith(ReadmeFarm), DirWith(ReadmeLower), DirWith(ReadmeUntitled)}

\* at most MaxPrograms of the directories exist
Trees ==
    {[d \in ProgramNames |-> IF d \in DOMAIN a THEN a[d] ELSE NoDir] :
        a \in UNION {[S -> DirStates] :
                        S \in {T \in SUBSET ProgramNames : Cardinality(T) <= MaxPrograms}}}

DefaultFiles ==
    <<[stem |-> "Tables", text |-> HeadDesc], [stem |-> "log", text |-> RequireLog]>>
DefaultTree ==
    [d \in ProgramNames |->
        IF d = "signshop" THEN DirWith(ReadmeFarm)
        ELSE IF d = "farm" THEN DirWith(ReadmeLower)
        ELSE NoDir]

\* the files vary under two programs, or the programs vary over two files
InitGenerate ==
    \/ \E files \in Discoveries : StartGenerate(files, DefaultTree)
    \/ \E dirs \in Trees : StartGenerate(DefaultFiles, dirs)

SpecGenerate == InitGenerate /\ [][NextGenerate]_vars

(***************************************************************************)
(* The source as lines, and what each line of the sources above documents  *)
(***************************************************************************)
SourceLines == Split(content)

HasLine(l) == LET lines == SourceLines IN \E i \in 1..Len(lines) : lines[i] = l

LinesIn(set) == SelectSeq(SourceLines, LAMBDA l : l \in set)

Functions == module.functions
Classes == module.classes

\* the Param a valid @param line stands for
ParamOf(l) ==
    CASE l = DocParamA   -> [name |-> "a", type |-> "number", description |-> "first addend"]
      [] l = DocParamB   -> [name |-> "b", type |-> "number", description |-> "second addend"]
      [] l = DocParamOpt -> [name |-> "c?", type |-> "table", description |-> ""]

\* the Field a valid @field line stands for
FieldOf(l) ==
    CASE l = FieldX   -> [name |-> "x", type |-> "number", description |-> "the abscissa"]
      [] l = FieldOpt -> [name |-> "y?", type |-> "number", description |-> ""]

\* the text a non-tag doc line adds to the description
TextOf(l) ==
    CASE l = DocDesc      -> "Adds two numbers."
      [] l = ClassDesc    -> "A point."
      [] l = CodeTrailing -> "t"
      [] l = DocBlank     -> ""

\* the text of a @return line
ReturnOf(l) ==
    CASE l = DocReturnSum -> "number the sum"
      [] l = DocReturnS   -> "s"

ParamLines == {DocParamA, DocParamB, DocParamOpt}
FieldLines == {FieldX, FieldOpt}
TextLines == {DocDesc, ClassDesc, CodeTrailing, DocBlank}
ReturnLines == {DocReturnSum, DocReturnS}
MalformedLines == {DocMalformed, FieldMalformed}

(***************************************************************************)
(* Claims about functions and classes, checked under SpecDoc               *)
(***************************************************************************)
\* C1: no Function record is produced for a function declared `local` under
\* a name without `.` or `:` (here: helper), whatever documentation precedes
\* it; a local function with a qualified name (here: M.f) is still recorded
\* when it is documented.
C1_LocalUnqualifiedDropped ==
    pc = "done" =>
        /\ \A k \in 1..Len(Functions) : Functions[k].name # "helper"
        /\ HasLine(DeclLocalQualified) /\ HasLine(DocDesc)
              => \E k \in 1..Len(Functions) : Functions[k].name = "M.f"

C1_Witness ==
    /\ pc = "done"
    /\ HasLine(DeclLocalPlain) /\ HasLine(DocDesc) /\ HasLine(DocReturnS)
    /\ Functions = <<>>

\* C2: every Function of the module has a non-empty description, a param or
\* a non-empty returns, every Class a non-empty description or a field; a
\* declaration whose doc block holds nothing but tag lines that yield
\* nothing is absent.
C2_Retention ==
    pc = "done" =>
        /\ \A k \in 1..Len(Functions) :
              \/ Functions[k].description # ""
              \/ Functions[k].params # <<>>
              \/ Functions[k].returns # ""
        /\ \A k \in 1..Len(Classes) :
              Classes[k].description # "" \/ Classes[k].fields # <<>>
        /\ LinesIn(MalformedLines \cup Decls \cup {ClassDecl, ClassOther}) = SourceLines
              => Functions = <<>> /\ Classes = <<>>

C2_Witness ==
    /\ pc = "done"
    /\ SourceLines = <<DocMalformed, DeclGlobal>>
    /\ Functions = <<>>

\* C3: with two or more @return lines in the doc block, returns is the text
\* of the last one alone.
C3_LastReturnWins ==
    pc = "done" =>
        LET returns == LinesIn(ReturnLines)
        IN  Len(returns) >= 2 =>
                \A k \in 1..Len(Functions) :
                    Functions[k].returns = ReturnOf(returns[Len(returns)])

C3_Witness ==
    /\ pc = "done"
    /\ LinesIn(ReturnLines) = <<DocReturnSum, DocReturnS>>
    /\ Len(Functions) = 1
    /\ Functions[1].returns = "s"

\* C4: the line recorded for a Function is the line that holds its
\* `function` declaration.
C4_LineOfDeclaration ==
    pc = "done" =>
        LET lines == SourceLines
        IN  \A k \in 1..Len(Functions) : lines[Functions[k].line] \in Decls

EmptyResult ==
    /\ module.description = ""
    /\ module.examples = <<>>
    /\ Functions = <<>>
    /\ Classes = <<>>

\* C5 as stated: a source none of whose lines starts with `---` gives an
\* empty description and no examples, functions or classes.
C5_NoLineStartsWithMarker ==
    pc = "done" =>
        LET lines == SourceLines
        IN  (\A i \in 1..Len(lines) : ~StartsWith(lines[i], "---")) => EmptyResult

\* C5 as amended: a source in which the marker `---` occurs nowhere gives an
\* empty description and no examples, functions or classes.
C5_NoMarkerAnywhere ==
    pc = "done" /\ ~InStr(content, "---") => EmptyResult

C5_Witness ==
    /\ pc = "done"
    /\ ~InStr(content, "---")
    /\ HasLine(PlainComment) /\ HasLine(DeclGlobal)

\* the lines before the declaration are one doc block
OneBlock(set, decl) ==
    LET lines == SourceLines
    IN  /\ lines[Len(lines)] = decl
        /\ \A i \in 1..(Len(lines) - 1) : lines[i] \in set

\* what the valid tag lines and the non-tag lines of the source stand for
ExpectedParams ==
    [i \in 1..Len(LinesIn(ParamLines)) |-> ParamOf(LinesIn(ParamLines)[i])]
ExpectedFields ==
    [i \in 1..Len(LinesIn(FieldLines)) |-> FieldOf(LinesIn(FieldLines)[i])]
ExpectedDescription ==
    Join(" ", [i \in 1..Len(LinesIn(TextLines)) |-> TextOf(LinesIn(TextLines)[i])])

\* C8: params (fields) are the records of the valid @param (@field) lines in
\* tag order, the optional marker kept in the name and the description empty
\* when omitted; the description is the non-tag lines joined by spaces; the
\* math.add block of the design document gives the stated record.
C8_ParamsFieldsDescription ==
    pc = "done" =>
        /\ \A k \in 1..Len(Functions) :
              /\ Functions[k].params = ExpectedParams
              /\ Functions[k].description = ExpectedDescription
        /\ OneBlock(TextLines \cup FieldLines \cup MalformedLines, ClassDecl) =>
              \A k \in 1..Len(Classes) :
                  /\ Classes[k].fields = ExpectedFields
                  /\ Classes[k].description = ExpectedDescription
        /\ content = Join(NL, MathAdd) \o NL =>
              /\ Len(Functions) = 1
              /\ Functions[1].description = "Adds two numbers."
              /\ Functions[1].params =
                    <<[name |-> "a", type |-> "number", description |-> "first addend"],
                      [name |-> "b", type |-> "number", description |-> "second addend"]>>
              /\ Functions[1].returns = "number the sum"

C8_Witness ==
    /\ pc = "done"
    /\ HasLine(DocParamOpt) /\ HasLine(DocParamA) /\ HasLine(DocDesc)
    /\ Len(Functions) = 1
    /\ Len(Functions[1].params) = 2

\* the source without its malformed @param and @field lines
WithoutMalformed ==
    Join(NL, SelectSeq(SourceLines, LAMBDA l : l \notin MalformedLines))

\* C9: a malformed @param or @field line adds no Param or Field and nothing
\* to the description, and the rest of its block is processed as if the line
\* were not there: the functions and classes of a source with malformed
\* lines are those of the same source without them.
C9_MalformedLineDropped ==
    pc = "done" /\ LinesIn(MalformedLines) # <<>> =>
        /\ Functions = ExtractFunctions(WithoutMalformed)
        /\ Classes = ExtractClasses(WithoutMalformed)

C9_Witness ==
    /\ pc = "done"
    /\ SourceLines = <<DocMalformed, DocParamA, DocMalformed, DeclGlobal>>
    /\ Len(Functions) = 1
    /\ Len(Functions[1].params) = 1

(***************************************************************************)
(* Claims about usage examples, checked under SpecUsage                    *)
(***************************************************************************)
\* the doc lines a usage run extends over, and those of them it captures
RunLines == {UsageCode, DocBlank, UsageIndented, UsageTagLine}
CapturedLines == {UsageCode, DocBlank, UsageIndented}

\* a captured line without its marker and without one following space
CleanOf(l) ==
    CASE l = UsageCode     -> "a"
      [] l = DocBlank      -> ""
      [] l = UsageIndented -> "  b"

\* the last line of the run of newline-terminated doc lines that starts at
\* line i of lines (i - 1 when line i is not one)
RECURSIVE RunLast(_, _)
RunLast(lines, i) ==
    IF i < Len(lines) /\ lines[i] \in RunLines THEN RunLast(lines, i + 1) ELSE i - 1

\* the example blocks of lines from line i on, read line by line
RECURSIVE ExpectedExamples(_, _)
ExpectedExamples(lines, i) ==
    IF i > Len(lines) THEN <<>>
    ELSE IF lines[i] = UsageAnchor /\ RunLast(lines, i + 1) > i
    THEN LET last == RunLast(lines, i + 1)
             captured == SelectSeq(SubSeq(lines, i + 1, last),
                                   LAMBDA l : l \in CapturedLines)
             cleaned == [k \in 1..Len(captured) |-> CleanOf(captured[k])]
         IN  (IF captured # <<>> THEN <<Join(NL, cleaned)>> ELSE <<>>)
                 \o ExpectedExamples(lines, last + 1)
    ELSE ExpectedExamples(lines, i + 1)

\* C6: each example is the newline-join, in source order, of the captured
\* lines of its @usage run, each without the marker and without at most one
\* following space: a blank `---` line stays as an empty line at its place
\* and indentation after the first space stays as written.
C6_ExampleBlocks ==
    pc = "done" => module.examples = ExpectedExamples(SourceLines, 1)

C6_Witness ==
    /\ pc = "done"
    /\ SourceLines = <<UsageAnchor, UsageCode, DocBlank, UsageIndented, "">>
    /\ module.examples = <<"a\n\n  b">>

(***************************************************************************)
(* Claims about dependencies and version, checked under SpecMeta           *)
(***************************************************************************)
RequireLines == {RequireLibFoo, RequireBar, RequireFoo, RequireBaz}

\* the module a require line names
RequiredBy(l) ==
    CASE l = RequireLibFoo -> "foo"
      [] l = RequireBar    -> "bar"
      [] l = RequireFoo    -> "foo"
      [] l = RequireBaz    -> "baz"

\* names without the repetitions of a name already seen
RECURSIVE FirstSeen(_, _)
FirstSeen(names, seen) ==
    IF Len(names) = 0 THEN <<>>
    ELSE IF names[1] \in seen THEN FirstSeen(SubSeq(names, 2, Len(names)), seen)
    ELSE <<names[1]>> \o FirstSeen(SubSeq(names, 2, Len(names)), seen \cup {names[1]})

Dependencies == module.dependencies

\* the names the require lines of the source name, in source order
RequiredNames ==
    [i \in 1..Len(LinesIn(RequireLines)) |-> RequiredBy(LinesIn(RequireLines)[i])]

\* C7: dependencies holds no name twice and never the module's own name,
\* lists the required names in the order of their first require, and has a
\* leading /lib/ stripped: require("/lib/foo") in bar.lua gives <<"foo">>,
\* require("bar") in bar.lua gives <<>>.
C7_Dependencies ==
    pc = "done" =>
        /\ \A i, j \in 1..Len(Dependencies) : i # j => Dependencies[i] # Dependencies[j]
        /\ \A i \in 1..Len(Dependencies) : Dependencies[i] # stem
        /\ Dependencies =
              FirstSeen(SelectSeq(RequiredNames, LAMBDA n : n # stem), {})
        /\ stem = "bar" /\ content = RequireLibFoo \o NL => Dependencies = <<"foo">>
        /\ stem = "bar" /\ content = RequireBar \o NL => Dependencies = <<>>

C7_Witness ==
    /\ pc = "done"
    /\ stem = "bar"
    /\ SourceLines = <<RequireBaz, RequireBar, RequireLibFoo, "">>
    /\ Dependencies = <<"baz", "foo">>

VersionTagLines == {VersionTag, VersionTag2}

\* the token of a ---@version line
TokenOf(l) ==
    CASE l = VersionTag  -> "3.4"
      [] l = VersionTag2 -> "5"

HeadDocLines == {HeadDesc, HeadIndented, DocBlank, HeadTag, HeadTagSpaced}
HeadTags == {HeadTag, HeadTagSpaced}
HeadTextLines == {HeadDesc, HeadIndented}

\* the content of a description line
HeadTextOf(l) ==
    CASE l = HeadDesc     -> "Logging helpers."
      [] l = HeadIndented -> "Second line."

\* the line at which the scan stops: the first tag line, or the first line
\* that is no doc comment and comes after a description line
ScanStop(lines) ==
    LET stops == {i \in 1..Len(lines) :
                     \/ lines[i] \in HeadTags
                     \/ /\ lines[i] \notin HeadDocLines
                        /\ \E j \in 1..(i - 1) : lines[j] \in HeadTextLines}
    IN  IF stops = {} THEN Len(lines) + 1
        ELSE CHOOSE i \in stops : \A j \in stops : i <= j

\* the non-empty doc lines before the stop
Consumed(lines) ==
    SelectSeq(SubSeq(lines, 1, ScanStop(lines) - 1), LAMBDA l : l \in HeadTextLines)

C16_FirstBlockOnly ==
    pc = "done" =>
        LET lines == SourceLines
        IN  (\E i \in 1..Len(lines) :
                /\ lines[i] \in HeadTags \cup {Code}
                /\ \A j \in 1..(i - 1) : lines[j] \notin HeadTextLines)
            => module.description = ""

(***************************************************************************)
(* Claims about usage anchors, checked under SpecUsage and SpecAnchor      *)
(***************************************************************************)
\* C17: no example is the empty string, and a source whose doc lines after
\* the anchors are only tag lines and blank `---` lines has no example.
C17_NoEmptyExample ==
    pc = "done" =>
        /\ \A k \in 1..Len(module.examples) : module.examples[k] # ""
        /\ ~HasLine(UsageCode) /\ ~HasLine(UsageIndented) => module.examples = <<>>

Anchors == {UsageAnchor, UsageSpaced}

\* the last line of the run of non-tag doc lines that starts at line i
RECURSIVE CodeRunEnd(_, _)
CodeRunEnd(lines, i) ==
    IF i <= Len(lines) /\ lines[i] = UsageCode THEN CodeRunEnd(lines, i + 1) ELSE i - 1

\* one example for each anchor that a non-tag doc line follows, in source
\* order: the run of non-tag doc lines up to the next tag line
RECURSIVE AnchoredExamples(_, _)
AnchoredExamples(lines, i) ==
    IF i >= Len(lines) THEN <<>>
    ELSE IF lines[i] \in Anchors /\ lines[i + 1] = UsageCode
    THEN LET last == CodeRunEnd(lines, i + 1)
         IN  <<Join(NL, [k \in 1..(last - i) |-> CleanOf(UsageCode)])>>
                 \o AnchoredExamples(lines, last + 1)
    ELSE AnchoredExamples(lines, i + 1)

\* C18: every doc line whose content, the marker and at most one space
\* stripped, is exactly @usage and which a non-tag doc line follows anchors
\* one example; the k-th such anchor gives the k-th example, and a line that
\* starts with another tag ends its run.
C18_AnchorsInOrder ==
    pc = "done" => module.examples = AnchoredExamples(SourceLines, 1)

(***************************************************************************)
(* Claims about class anchors, checked under SpecDoc                       *)
(***************************************************************************)
ClassAnchors == {ClassOther, ClassDecl}
ClassDocLines == {ClassDesc, DocBlank, FieldX, FieldOpt, FieldMalformed}

ClassNameOf(l) ==
    CASE l = ClassOther -> "J"
      [] l = ClassDecl  -> "K"

\* line i is a @class anchor and the doc lines right above it hold a
\* description line or a valid @field line
Documented(lines, i) ==
    /\ lines[i] \in ClassAnchors
    /\ \E j \in 1..(i - 1) :
          /\ lines[j] \in {ClassDesc} \cup FieldLines
          /\ \A k \in j..(i - 1) : lines[k] \in ClassDocLines

\* the names of the documented anchors of lines from line i on
RECURSIVE DocumentedNames(_, _)
DocumentedNames(lines, i) ==
    IF i > Len(lines) THEN <<>>
    ELSE (IF Documented(lines, i) THEN <<ClassNameOf(lines[i])>> ELSE <<>>)
             \o DocumentedNames(lines, i + 1)

\* names can be read off seq in order, skipping entries of seq
RECURSIVE IsSubsequence(_, _)
IsSubsequence(names, seq) ==
    IF names = <<>> THEN TRUE
    ELSE IF seq = <<>> THEN FALSE
    ELSE IF names[1] = seq[1] THEN IsSubsequence(Tail(names), Tail(seq))
    ELSE IsSubsequence(names, Tail(seq))

\* C19: each documented @class anchor gives a Class of its name, one for
\* one and in source order: two documented anchors give two Class records.
C19_OneClassPerAnchor ==
    pc = "done" =>
        IsSubsequence(DocumentedNames(SourceLines, 1),
                      [k \in 1..Len(Classes) |-> Classes[k].name])

(***************************************************************************)
(* Claims about the README scanner, checked under SpecReadme               *)
(***************************************************************************)
ReadmeLines == Split(readme[1])

\* how many lines of the README are the line l
Count(l) == Len(SelectSeq(ReadmeLines, LAMBDA x : x = l))

\* C13: a README without a Features heading gives features = <<>>, one
\* without a Components or Requirements heading gives that list empty, one
\* without a title gives title = "", one without an install block gives
\* installation = ""; the fields whose part the README does have are
\* extracted all the same.
C13_MissingSections ==
    pc = "done" /\ readme # None =>
        /\ program # None
        /\ Count("## Features") = 0 => program.features = <<>>
        /\ Count("## Components") = 0 => program.components = <<>>
        /\ Count("## Requirements") = 0 => program.requirements = <<>>
        /\ Count("# Farm") = 0 => program.title = "" /\ program.description = ""
        /\ Count(Fence) = 0 => program.installation = ""
        /\ Count("## Features") = 1 => program.features = <<"Fast harvest", "Replants">>
        /\ Count("## Components") = 1 => program.components = <<"Planter plants">>
        /\ Count("## Requirements") = 1 => program.requirements = <<"A turtle", "Fuel">>
        /\ Count("# Farm") > 0 => program.title = "Farm"
        /\ Count(Fence) > 0 => program.installation = "wget run https://x/farm.lua"

C13_Witness ==
    /\ pc = "done"
    /\ ReadmeLines = Flatten(<<TitleBlock, RequirementsBlock, ComponentsBlock>>) \o <<"">>
    /\ program.features = <<>>
    /\ program.installation = ""
    /\ program.components = <<"Planter plants">>
    /\ program.requirements = <<"A turtle", "Fuel">>

(***************************************************************************)
(* Claims about a run of generate, checked under SpecGenerate              *)
(***************************************************************************)
NamesOf(list) == [i \in 1..Len(list) |-> list[i].name]

\* no key is less than the key before it
NonDecreasing(keys) ==
    \A i \in 1..(Len(keys) - 1) : ~StrLess(keys[i + 1], keys[i])

ModulesSorted(ms) == NonDecreasing([i \in 1..Len(ms) |-> Lower(ms[i].name)])

ProgramsSorted(ps) ==
    NonDecreasing([i \in 1..Len(ps) |->
                      Lower(IF ps[i].title = "" THEN ps[i].name ELSE ps[i].title)])

\* C11: from the sort step on, and in what the index page and the JSON API
\* are rendered from, modules is in non-decreasing order of the lowercased
\* name and programs in non-decreasing order of the lowercased title, or
\* name when the title is empty.
C11_SortedWhenRendered ==
    /\ pc \in {"sorted", "indexed", "end"} =>
          ModulesSorted(modules) /\ ProgramsSorted(programs)
    /\ index # None =>
          ModulesSorted(index[1].modules) /\ ProgramsSorted(index[1].programs)
    /\ api # None => ModulesSorted(api[1].libraries)

C11_Witness ==
    /\ pc = "end"
    /\ [i \in 1..Len(lua_files) |-> lua_files[i].stem] = <<"Tables", "log">>
    /\ NamesOf(modules) = <<"log", "Tables">>
    /\ NamesOf(programs) = <<"farm", "signshop">>
    /\ NamesOf(api[1].libraries) = <<"log", "Tables">>

\* the one-to-one maps of 1..n onto itself
Orders(n) ==
    {f \in [1..n -> 1..n] : \A i, j \in 1..n : i # j => f[i] # f[j]}

\* C12: the modules handed to the index and to the JSON API are the same
\* for every order in which the same files can be discovered, entries whose
\* names differ only in letter case included.
C12_OrderIndependent ==
    index # None =>
        LET parsed == [i \in 1..Len(lua_files) |->
                          parse_file(lua_files[i].stem, lua_files[i].text)]
        IN  \A f \in Orders(Len(lua_files)) :
                LET sorted == SortModules([i \in 1..Len(parsed) |-> parsed[f[i]]])
                IN  /\ sorted = index[1].modules
                    /\ api # None => Libraries(sorted) = api[1].libraries

\* C14: the module installer is in none of libraries.json, all.json and
\* api/installer.json, every other module is in all three, and every
\* module has its Markdown page, its HTML page and its index entry.
C14_Exclusion ==
    pc = "end" =>
        \A i \in 1..Len(modules) :
            LET name == modules[i].name
                inLibraries == \E k \in 1..Len(api[1].libraries) :
                                   api[1].libraries[k].name = name
                inAll == \E k \in 1..Len(api[1].all) : api[1].all[k][1] = name
                hasJson == ("api/" \o name \o ".json") \in written
            IN  /\ (name \o ".md") \in written
                /\ (name \o ".html") \in written
                /\ \E k \in 1..Len(index[1].modules) : index[1].modules[k].name = name
                /\ IF name = "installer"
                   THEN ~inLibraries /\ ~inAll /\ ~hasJson
                   ELSE inLibraries /\ inAll /\ hasJson

C14_Witness ==
    /\ pc = "end"
    /\ NamesOf(modules) = <<"installer", "log">>
    /\ NamesOf(api[1].libraries) = <<"log">>
    /\ {"installer.md", "installer.html", "api/log.json"} \subseteq written
    /\ "api/installer.json" \notin written

\* C20: every dependency of a module is the name of another module of the
\* run, that is of another file that was discovered.
C20_DependenciesKnown ==
    \A i \in 1..Len(modules) :
        \A k \in 1..Len(modules[i].dependencies) :
            /\ modules[i].dependencies[k] # modules[i].name
            /\ \E j \in 1..Len(lua_files) :
                   lua_files[j].stem = modules[i].dependencies[k]

(***************************************************************************)
(* Claims about @return lines, checked under SpecReturn                    *)
(***************************************************************************)
\* what follows the leading @return of a line, trimmed
RemainderOf(l) ==
    CASE l = DocReturnSum   -> "number the sum"
      [] l = DocReturnS     -> "s"
      [] l = DocReturnTwice -> "string see @return of g"

\* C21: returns is the text that follows the leading @return of the (last)
\* @return line, trimmed and otherwise as written, also when that text holds
\* the characters @return again.
C21_ReturnRemainder ==
    pc = "done" =>
        LET returns == LinesIn({DocReturnSum, DocReturnS, DocReturnTwice})
        IN  returns # <<>> =>
                /\ Len(Functions) = 1
                /\ Functions[1].returns = RemainderOf(returns[Len(returns)])

(***************************************************************************)
(* Claims about the sections of a README                                   *)
(***************************************************************************)
FeatureHeadings == {FeaturesTitle, FeaturesLower, FeaturesUpper}

\* C22: a line with a second-level Features heading, in whatever letter
\* case, enters the features state: the bullet right under it is collected.
C22_AnyCaseHeading ==
    pc = "done" /\ readme # None =>
        LET lines == ReadmeLines
        IN  \A i \in 1..(Len(lines) - 1) :
                lines[i] \in FeatureHeadings /\ lines[i + 1] = BulletFast
                    => Contains(program.features, "fast")

SectionTitles == {FeaturesTitle, ComponentsTitle, RequirementsTitle}

\* the lines of the section headed h: from its first heading line to the
\* next line that is the heading of another section
SectionStart(h) == Leftmost({i \in 1..Len(ReadmeLines) : ReadmeLines[i] = h})
SectionEnd(h) ==
    LET later == {j \in (SectionStart(h) + 1)..Len(ReadmeLines) :
                      ReadmeLines[j] \in SectionTitles \ {h}}
    IN  IF later = {} THEN Len(ReadmeLines) + 1 ELSE Leftmost(later)
SectionBody(h) ==
    IF SectionStart(h) = 0 THEN <<>>
    ELSE SubSeq(ReadmeLines, SectionStart(h) + 1, SectionEnd(h) - 1)

\* the item a bullet line stands for
BulletText(l) ==
    CASE l = BulletFast -> "fast"
      [] l = BulletBold -> "Planter plants"
TextsOf(seq) == [k \in 1..Len(seq) |-> BulletText(seq[k])]
Bullets(h) == TextsOf(SelectSeq(SectionBody(h), LAMBDA l : l \in {BulletFast, BulletBold}))
BoldBullets(h) == TextsOf(SelectSeq(SectionBody(h), LAMBDA l : l = BulletBold))

\* C23 as stated: in each of the three sections every line starting with
\* the bullet marker is appended in order, marker and bold markup removed,
\* and no other line adds anything.
C23_EveryBullet ==
    pc = "done" /\ readme # None =>
        /\ program.features = Bullets(FeaturesTitle)
        /\ program.components = Bullets(ComponentsTitle)
        /\ program.requirements = Bullets(RequirementsTitle)

\* C23 amended: features and requirements hold every bullet line of their
\* section, components holds the bold-led bullet lines of its section only;
\* all in document order, marker and bold markup removed, no other line
\* adding anything.
C23_BulletsPerSection ==
    pc = "done" /\ readme # None =>
        /\ program.features = Bullets(FeaturesTitle)
        /\ program.components = BoldBullets(ComponentsTitle)
        /\ program.requirements = Bullets(RequirementsTitle)

C23_Witness ==
    /\ pc = "done" /\ readme # None
    /\ Contains(SectionBody(ComponentsTitle), BulletFast)
    /\ Contains(SectionBody(ComponentsTitle), BulletBold)
    /\ program.components = <<"Planter plants">>

\* the lines between the heading h and the next second-level heading
SecondLevel(l) == StartsWith(l, "## ")
NextHeading(h) ==
    LET later == {j \in (SectionStart(h) + 1)..Len(ReadmeLines) :
                      SecondLevel(ReadmeLines[j])}
    IN  IF later = {} THEN Len(ReadmeLines) + 1 ELSE Leftmost(later)
UpToNextHeading(h) ==
    IF SectionStart(h) = 0 THEN <<>>
    ELSE SubSeq(ReadmeLines, SectionStart(h) + 1, NextHeading(h) - 1)

SectionList(h) ==
    CASE h = FeaturesTitle     -> program.features
      [] h = ComponentsTitle   -> program.components
      [] h = RequirementsTitle -> program.requirements

Occurrences(seq, x) == Len(SelectSeq(seq, LAMBDA y : y = x))

\* C24: a list state lasts from its heading to the next second-level heading
\* and no longer: the section's list holds the bullet once for each bullet
\* line between the two, those after a third-level heading included, and
\* for no line after the second-level heading.
C24_EndsAtNextHeading ==
    pc = "done" /\ readme # None =>
        \A h \in {FeaturesTitle, ComponentsTitle} :
            Count(h) = 1 =>
                Occurrences(SectionList(h), BulletText(BulletBold))
                    = Occurrences(UpToNextHeading(h), BulletBold)

\* the first top-level heading line, 0 if there is none
TitleAt == Leftmost({i \in 1..Len(ReadmeLines) : ReadmeLines[i] \in {TitleFarm, TitleOther}})
TitleText(l) ==
    CASE l = TitleFarm  -> "Farm"
      [] l = TitleOther -> "Other"

\* a line of the lead paragraph, trimmed
Trimmed(l) ==
    CASE l = ProseIndent -> "All year."
      [] l = InstallLine -> "Installation:"
      [] OTHER           -> l

\* the description made of the lines after the title line up to the first
\* line of the set stops, the lines of the set skipped left out
LeadParagraph(stops, skipped) ==
    IF TitleAt = 0 THEN ""
    ELSE LET ends == {j \in (TitleAt + 1)..Len(ReadmeLines) : ReadmeLines[j] \in stops}
             last == IF ends = {} THEN Len(ReadmeLines) ELSE Leftmost(ends) - 1
             kept == SelectSeq(SubSeq(ReadmeLines, TitleAt + 1, last),
                               LAMBDA l : l # "" /\ l \notin skipped)
         IN  Join(" ", [k \in 1..Len(kept) |-> Trimmed(kept[k])])

Terminators == {FeaturesTitle, BulletLed, FenceLua, InstallLine}

\* C25 as stated: the title is the text of the first top-level heading line,
\* the description the trimmed non-blank lines after it, joined by spaces,
\* up to the first second-level heading, bold-led bullet, fence opener or
\* install line; every non-blank line before that one is in it.
C25_LeadParagraph ==
    pc = "done" /\ readme # None =>
        /\ program.title = (IF TitleAt = 0 THEN "" ELSE TitleText(ReadmeLines[TitleAt]))
        /\ program.description = LeadParagraph(Terminators, {})

\* C25 amended: the description also ends at a heading of a deeper level
\* (any line starting with two hashes), and a later top-level heading line
\* is left out of it without ending it.
C25_LeadParagraphAmended ==
    pc = "done" /\ readme # None =>
        /\ program.title = (IF TitleAt = 0 THEN "" ELSE TitleText(ReadmeLines[TitleAt]))
        /\ program.description
               = LeadParagraph(Terminators \cup {DeepHeading}, {TitleFarm, TitleOther})

C25_Witness ==
    /\ pc = "done" /\ readme # None
    /\ ReadmeLines = <<TitleFarm, Prose, InstallLine, ProseIndent, "">>
    /\ program.title = "Farm"
    /\ program.description = Prose

FenceLines == {Fence, FenceLua, FenceSh}
RunCommands == {RunShort, RunPadded}
CommandOf(l) ==
    CASE l = RunShort  -> "wget run a"
      [] l = RunPadded -> "wget run x/i.lua"

\* line i opens a fenced block: a fence line with an even number of fence
\* lines before it and a fence line after it
OpensBlock(i) ==
    /\ ReadmeLines[i] \in FenceLines
    /\ Cardinality({k \in 1..(i - 1) : ReadmeLines[k] \in FenceLines}) % 2 = 0
    /\ \E j \in (i + 1)..Len(ReadmeLines) : ReadmeLines[j] \in FenceLines

\* the fence line of the first block whose content begins with the keyword
FirstRunBlock ==
    Leftmost({i \in 1..(Len(ReadmeLines) - 1) :
                  OpensBlock(i) /\ ReadmeLines[i + 1] \in RunCommands})

\* C26 as stated: when a fenced block begins with the run keyword, whatever
\* its fence line and its other lines are, installation is the trimmed
\* command of the first such block.
C26_FirstRunBlock ==
    pc = "done" /\ readme # None =>
        (FirstRunBlock # 0 =>
            program.installation = CommandOf(ReadmeLines[FirstRunBlock + 1]))

\* line i is a fence with no language or with text or lua, the next
\* non-blank line j is a run command, and line j + 1 starts with a fence
RunAfter(i) ==
    Leftmost({j \in (i + 1)..(Len(ReadmeLines) - 1) :
                  /\ \A k \in (i + 1)..(j - 1) : ReadmeLines[k] = ""
                  /\ ReadmeLines[j] \in RunCommands
                  /\ ReadmeLines[j + 1] \in FenceLines})
FirstRunFence ==
    Leftmost({i \in 1..Len(ReadmeLines) :
                  ReadmeLines[i] \in {Fence, FenceLua} /\ RunAfter(i) # 0})

\* C26 amended: installation is the trimmed command that follows the first
\* fence line which carries no language or text or lua, has the command as
\* the next non-blank line and a fence line right after the command; it is
\* empty when the README has no such fence line.
C26_OneLineBlock ==
    pc = "done" /\ readme # None =>
        program.installation
            = (IF FirstRunFence = 0 THEN ""
               ELSE CommandOf(ReadmeLines[RunAfter(FirstRunFence)]))

C26_Witness ==
    /\ pc = "done" /\ readme # None
    /\ ReadmeLines = <<Echo, FenceLua, RunPadded, Fence, "">>
    /\ program.installation = "wget run x/i.lua"

\* the fields of the Program the line l has contributed to
Contributions(l) ==
    {f \in {"description", "features", "components", "requirements"} :
        CASE f = "description"  -> InStr(program.description, l)
          [] f = "features"     -> Contains(program.features, BulletText(l))
          [] f = "components"   -> Contains(program.components, BulletText(l))
          [] f = "requirements" -> Contains(program.requirements, BulletText(l))}

\* C27: the section states are mutually exclusive: a line that stands once
\* in the README contributes to at most one of description, features,
\* components and requirements.
C27_OneStatePerLine ==
    pc = "done" /\ readme # None =>
        \A l \in {BulletFast, BulletBold} :
            Count(l) = 1 => Cardinality(Contributions(l)) <= 1

(***************************************************************************)
(* The order of the steps of generate                                      *)
(***************************************************************************)
\* C28: the lists are sorted in a step taken when every file is parsed and
\* every program directory probed, no file is parsed and no directory
\* probed once they are sorted, the index is rendered from the sorted lists
\* and the JSON API after the index.
C28_SortAfterParsing ==
    [][/\ pc = "generate" /\ pc' = "sorted" =>
            /\ Len(modules) = Len(lua_files)
            /\ probed = Len(program_dirs)
       /\ Len(modules') # Len(modules) \/ probed' # probed =>
            pc = "generate" /\ pc' = "generate"
       /\ index' # index =>
            /\ pc = "sorted"
            /\ index' = Some([modules |-> SortModules(modules),
                              programs |-> SortPrograms(programs)])
       /\ api' # api => pc = "indexed" /\ index # None]_vars

C28_Witness ==
    /\ pc = "end"
    /\ Len(modules) = 2
    /\ modules[1].name # lua_files[1].stem
    /\ programs # <<>>
    /\ index # None /\ api # None

(***************************************************************************)
(* Usage examples and the doc block of a declaration                       *)
(***************************************************************************)
\* C29: a doc line captured in a usage example is not also folded into the
\* description of a function or of a class.
C29_NoLeak ==
    pc = "done" /\ Len(SelectSeq(SourceLines, LAMBDA l : l = UsageCall)) = 1 =>
        ((\E k \in 1..Len(module.examples) : InStr(module.examples[k], "add(1, 2)"))
            => /\ \A k \in 1..Len(Functions) :
                      ~InStr(Functions[k].description, "add(1, 2)")
               /\ \A k \in 1..Len(Classes) :
                      ~InStr(Classes[k].description, "add(1, 2)"))

====
